---------------------------- MODULE Spec2Model ----------------------------
(***************************************************************************)
(* s3-versions-to-git-history: the history-replay pipeline of              *)
(* src/s3-versions-to-git.go as a state machine.                           *)
(*                                                                         *)
(*   main -> queryS3Bucket -> queryS3Versions (list + sort.Slice)          *)
(*        -> replayS3Changes -> applyGitChanges -> downloadFile            *)
(*                                                                         *)
(* The storage backend, the local filesystem and the git repository are    *)
(* part of the state.  Every backend / filesystem / git call may fail.     *)
(***************************************************************************)
EXTENDS Naturals, Sequences, FiniteSets

(* ------------------------------ bounds -------------------------------- *)

\* Largest number of stored versions in the bucket.
MaxVersions == 3

\* Timestamps are 0..MaxTime; 0 is the zero time.Time.
MaxTime == 3

\* Largest number of stored versions in the bucket of a re-run scenario.
MaxRerunVersions == 2

\* Number of runs of the tool against the same output directory.
MaxRuns == 2

\* Largest number of failures per run that the run survives: a failing
\* ListObjectVersions, a failing io.ReadAll.
MaxFaults == 1

(* --------------------------- data model ------------------------------- *)

\* time.Time{} : the zero value of time.Time.
ZeroTime == 0

Times == ZeroTime..MaxTime

\* Object keys as strings of characters: "a" and "a2".
Keys == { <<1>>, <<1, 2>> }

BucketName == "bucket"

OutputDir == "out"

\* strings.HasPrefix: how the backend matches ListObjectVersions' Prefix.
HasPrefix(s, prefix) ==
    /\ Len(prefix) <= Len(s)
    /\ SubSeq(s, 1, Len(prefix)) = prefix

\* t.Before(u) and t.After(u) of time.Time.
Before(t, u) == t < u

After(t, u) == t > u

S3Object(key) == [Key |-> key, Bucket |-> BucketName]

S3VersionedObject(key, vid, lm, root) ==
    [Key |-> key, Bucket |-> BucketName, VersionId |-> vid,
     RepositoryRoot |-> root, LastModified |-> lm]

toLocalPath(svo) == <<svo.RepositoryRoot, svo.Bucket, svo.Key>>

toBasenamePath(svo) == svo.Key

\* The byte content the backend stores for (key, versionId).
Body(key, vid) == key \o <<vid>>

NoFile == [exists |-> FALSE, data |-> <<>>]

File(data) == [exists |-> TRUE, data |-> data]

Paths == { <<OutputDir, BucketName, k>> : k \in Keys }

NoObject == S3VersionedObject(<<>>, 0, ZeroTime, OutputDir)

\* One call of the backend, the filesystem or git: the object it was about,
\* the error it returned, the data it left, whether reading the body failed.
Event(op, obj, err, data) ==
    [op |-> op, obj |-> obj, err |-> err, data |-> data, readErr |-> FALSE]

(* ------------------------------ state --------------------------------- *)

VARIABLES
    bucket,               \* the backend: stored versions in enumeration order
    run,                  \* number of the current run of the tool
    pc,                   \* position of main
    fs,                   \* local filesystem under the output directory
    repoExists,           \* a git repository exists at <outputDir>/<bucket>
    index,                \* staging area of the worktree: key -> content
    commits,              \* commit chain of the repository, oldest first
    rawObjects,           \* main: rawObjects
    listErr,              \* queryS3Bucket returned an error
    sortedVersions,       \* main: sortedVersions
    idx,                  \* replayS3Changes: position of the range loop
    currentDate,          \* replayS3Changes: currentDate
    objectModifications,  \* replayS3Changes: objectModifications
    objIdx,               \* applyGitChanges: position of the range loop
    files,                \* applyGitChanges: files
    commitDate,           \* applyGitChanges: commitDate
    reported,             \* diagnostics printed by this run
    faults,               \* failures this run has survived
    trace                 \* backend, filesystem and git calls of this run

vars == <<bucket, run, pc, fs, repoExists, index, commits, rawObjects, listErr,
          sortedVersions, idx, currentDate, objectModifications, objIdx,
          files, commitDate, reported, faults, trace>>

repoVars == <<repoExists, index, commits>>

listVars == <<rawObjects, listErr, sortedVersions>>

replayVars == <<idx, currentDate, objectModifications>>

applyVars == <<objIdx, files, commitDate>>

\* Timestamps are only compared with each other and with the zero time, so
\* the non-zero timestamps of a store are numbered 1, 2, ... without gaps.
Dense(store) ==
    \A i \in DOMAIN store :
      store[i].LastModified > 1 =>
        \E j \in DOMAIN store : store[j].LastModified = store[i].LastModified - 1

\* Stored versions: (key, lastModified) in the backend's enumeration order;
\* the version id is an opaque name, here the position in the enumeration.
Stores(n) ==
    { store \in UNION { [1..m -> [Key : Keys, LastModified : Times]] : m \in 0..n } :
        Dense(store) }

InitWith(n) ==
    /\ bucket \in Stores(n)
    /\ run = 1
    /\ pc = "start"
    /\ fs = [p \in Paths |-> NoFile]
    /\ repoExists = FALSE
    /\ index = [k \in Keys |-> NoFile]
    /\ commits = <<>>
    /\ rawObjects = <<>>
    /\ listErr = FALSE
    /\ sortedVersions = <<>>
    /\ idx = 1
    /\ currentDate = ZeroTime
    /\ objectModifications = <<>>
    /\ objIdx = 1
    /\ files = <<>>
    /\ commitDate = ZeroTime
    /\ reported = {}
    /\ faults = 0
    /\ trace = <<>>

Init == InitWith(MaxVersions)


(* ------------------------- pure helpers ------------------------------- *)

RemoveAt(s, i) == SubSeq(s, 1, i - 1) \o SubSeq(s, i + 1, Len(s))

Last(s) == s[Len(s)]

\* result.Contents of ListObjectsV2: the distinct keys present in the bucket.
Contents(store) ==
    LET firsts == { i \in DOMAIN store :
                      \A j \in 1..(i - 1) : store[j].Key # store[i].Key }
        Pick[n \in 0..Len(store)] ==
            IF n = 0 THEN <<>>
            ELSE IF n \in firsts THEN Append(Pick[n - 1], store[n].Key)
                 ELSE Pick[n - 1]
    IN  Pick[Len(store)]

\* result.Versions of ListObjectVersions(Bucket, Prefix): every stored version
\* whose key starts with Prefix, converted as queryS3Versions converts it.
ListObjectVersions(store, s3obj, repoPath) ==
    LET hits == { i \in DOMAIN store : HasPrefix(store[i].Key, s3obj.Key) }
        Pick[n \in 0..Len(store)] ==
            IF n = 0 THEN <<>>
            ELSE IF n \in hits
                 THEN Append(Pick[n - 1],
                             S3VersionedObject(store[n].Key, n,
                                               store[n].LastModified, repoPath))
                 ELSE Pick[n - 1]
    IN  Pick[Len(store)]

\* A listing loop that gives up at the first failing object.
RECURSIVE CollectUntilError(_, _, _, _)
CollectUntilError(store, objects, failed, i) ==
    IF i > Len(objects) \/ i \in failed THEN <<>>
    ELSE ListObjectVersions(store, objects[i], OutputDir)
           \o CollectUntilError(store, objects, failed, i + 1)

\* queryS3Versions' loop from object i on: a failing listing is skipped
\* (continue), the versions of the others are appended.
RECURSIVE CollectVersions(_, _, _, _)
CollectVersions(store, objects, failed, i) ==
    IF i > Len(objects) THEN <<>>
    ELSE (IF i \in failed THEN <<>>
          ELSE ListObjectVersions(store, objects[i], OutputDir))
           \o CollectVersions(store, objects, failed, i + 1)

\* sort.Slice with less = LastModified.Before: sort.Slice is not stable, so
\* every permutation without an inversion is a possible result.
RECURSIVE SortSlice(_)
SortSlice(s) ==
    IF s = <<>> THEN { <<>> }
    ELSE LET least == { i \in DOMAIN s :
                          \A j \in DOMAIN s :
                            ~Before(s[j].LastModified, s[i].LastModified) }
         IN  UNION { { <<s[i]>> \o t : t \in SortSlice(RemoveAt(s, i)) } :
                     i \in least }

Report(tags) == reported' = reported \cup tags

Log(events) == trace' = trace \o events

(* ------------------------------ main ---------------------------------- *)

\* A bootstrap that always initialises a fresh repository.
AlwaysInit(exists, history) == <<>>

\* git.PlainOpen, else git.PlainInit: the history main works on.
OpenOrInit(exists, history) == IF exists THEN history ELSE <<>>

\* main, up to the storage client: the output directory, the repository,
\* the worktree and the client.  Any of the steps may fail and ends the run.
Bootstrap ==
    /\ pc = "start"
    /\ \E out \in {"nil", "MkdirAll", "PlainInit", "Worktree", "getS3Client"} :
         LET opened == out \notin {"MkdirAll", "PlainInit"}
         IN  /\ out = "MkdirAll" => ~repoExists
             /\ repoExists' = (repoExists \/ opened)
             /\ commits' = IF opened THEN OpenOrInit(repoExists, commits)
                           ELSE commits
             /\ index' = IF opened /\ ~repoExists THEN [k \in Keys |-> NoFile]
                         ELSE index
             /\ pc' = IF out = "nil" THEN "list" ELSE "done"
             /\ Report(IF out = "nil" THEN {} ELSE {out})
    /\ UNCHANGED <<bucket, run, fs, listVars, replayVars, applyVars, faults,
                   trace>>

\* A listing that hands back what it has together with the error.
queryS3BucketKeepsObjects(store, failed) ==
    [ i \in DOMAIN Contents(store) |-> S3Object(Contents(store)[i]) ]

\* queryS3Bucket's first result: nil when ListObjectsV2 fails.
queryS3BucketObjects(store, failed) ==
    IF failed THEN <<>>
    ELSE [ i \in DOMAIN Contents(store) |-> S3Object(Contents(store)[i]) ]

\* main line 308: the error of queryS3Bucket is overwritten by line 309.
queryS3Bucket ==
    /\ pc = "list"
    /\ \E failed \in BOOLEAN :
         /\ rawObjects' = queryS3BucketObjects(bucket, failed)
         /\ listErr' = failed
         /\ Report(IF failed THEN {"ListObjectsV2"} ELSE {})
         /\ Log(<<Event("ListObjectsV2", NoObject,
                        IF failed THEN "err" ELSE "nil", <<>>)>>)
    /\ pc' = "versions"
    /\ UNCHANGED <<bucket, run, fs, repoVars, sortedVersions, replayVars,
                   applyVars, faults>>

ListingEvents(objects, failed) ==
    [ i \in DOMAIN objects |->
        Event("ListObjectVersions",
              S3VersionedObject(objects[i].Key, 0, ZeroTime, OutputDir),
              IF i \in failed THEN "err" ELSE "nil", <<>>) ]

\* queryS3Versions, main lines 309-314: its error is always nil.
queryS3Versions ==
    /\ pc = "versions"
    /\ \E failed \in SUBSET DOMAIN rawObjects :
         /\ Cardinality(failed) <= MaxFaults
         /\ faults' = Cardinality(failed)
         /\ \E sorted \in SortSlice(CollectVersions(bucket, rawObjects, failed, 1)) :
              sortedVersions' = sorted
         /\ Report(IF failed = {} THEN {} ELSE {"ListObjectVersions"})
         /\ Log(ListingEvents(rawObjects, failed))
    /\ pc' = "replay"
    /\ idx' = 1
    /\ currentDate' = ZeroTime
    /\ objectModifications' = <<>>
    /\ UNCHANGED <<bucket, run, fs, repoVars, rawObjects, listErr, applyVars>>

(* ------------------------- replayS3Changes ---------------------------- *)

\* A scan that does not take the first record's date as its start.
NoStartDate(date, version) == date

\* Lines 146-149: the zero time marks "not started".
StartDate(date, version) ==
    IF date = ZeroTime THEN version.LastModified ELSE date

\* Where replayS3Changes goes when applyGitChanges returned an error, had
\* the return of line 155 been left out.
ErrorFallsThrough == "resume"

\* Lines 152-156: an error of applyGitChanges is logged and ends the replay.
AfterApplyError == "done"

\* Where the range loop goes at the end of the input, had it committed the
\* buffer there without looking whether it holds anything.
CommitAtEnd == "commit"

\* Line 163: the range loop ends and replayS3Changes returns.
AfterLastVersion == "done"

\* The head of one iteration of the range loop, lines 145-151 and 160.
ReplayVersion ==
    /\ pc = "replay"
    /\ IF idx > Len(sortedVersions)
       THEN /\ pc' = AfterLastVersion
            /\ objIdx' = 1
            /\ files' = <<>>
            /\ commitDate' = ZeroTime
            /\ UNCHANGED <<replayVars, trace>>
       ELSE LET version == sortedVersions[idx]
                date == StartDate(currentDate, version)
            IN  /\ currentDate' = date
                /\ IF After(version.LastModified, date)
                   THEN \* call applyGitChanges(objectModifications, ...)
                        /\ pc' = IF objectModifications = <<>> THEN "commit"
                                 ELSE "download"
                        /\ objIdx' = 1
                        /\ files' = <<>>
                        /\ commitDate' = ZeroTime
                        /\ Log(<<Event("applyGitChanges", NoObject, "nil",
                                       objectModifications)>>)
                        /\ UNCHANGED <<idx, objectModifications>>
                   ELSE /\ objectModifications' =
                              Append(objectModifications, version)
                        /\ idx' = idx + 1
                        /\ pc' = "replay"
                        /\ UNCHANGED <<applyVars, trace>>
    /\ UNCHANGED <<bucket, run, fs, repoVars, listVars, reported, faults>>

\* Lines 157-160, after applyGitChanges returned nil.
ResumeReplay ==
    /\ pc = "resume"
    /\ objectModifications' = <<sortedVersions[idx]>>
    /\ currentDate' = sortedVersions[idx].LastModified
    /\ idx' = idx + 1
    /\ pc' = "replay"
    /\ UNCHANGED <<bucket, run, fs, repoVars, listVars, applyVars, reported,
                   faults, trace>>

(* --------------------------- downloadFile ----------------------------- *)

\* What io.ReadAll can hand back when reading the body fails part-way.
TruncatedReads(body) == { SubSeq(body, 1, n) : n \in {Len(body) - 1} }

\* A file opened for appending instead of being truncated.
AppendWrite(old, body) == File(old.data \o body)

\* os.Create truncates the file, file.Write writes the body.
CreateAndWrite(old, body) == File(body)

\* Lines 195-201 when io.ReadAll fails: the error is logged, then overwritten
\* by the result of file.Write, which writes what was read.
ReadErrorOutcomes(object, old) ==
    LET body == Body(object.Key, object.VersionId)
    IN  { [err |-> "nil", readErr |-> TRUE, file |-> CreateAndWrite(old, b)] :
          b \in TruncatedReads(body) }

\* Every way downloadFile can end: the error it returns, whether io.ReadAll
\* failed, and the file it leaves at the local path.
downloadFile(object, old) ==
    LET body == Body(object.Key, object.VersionId)
    IN  { [err |-> "GetObject|MkdirAll|Create", readErr |-> FALSE,
            file |-> old] }
        \cup { [err |-> "Write", readErr |-> FALSE, file |-> File(<<>>)] }
        \cup ReadErrorOutcomes(object, old)
        \cup { [err |-> "nil", readErr |-> FALSE,
                file |-> CreateAndWrite(old, body)] }

(* -------------------------- applyGitChanges --------------------------- *)

\* Lines 207-215: download one member of the changeset.
Download ==
    /\ pc = "download"
    /\ LET object == objectModifications[objIdx]
           path == toLocalPath(object)
       IN  \E out \in downloadFile(object, fs[path]) :
             /\ out.readErr => faults < MaxFaults
             /\ faults' = IF out.readErr THEN faults + 1 ELSE faults
             /\ fs' = [fs EXCEPT ![path] = out.file]
             /\ Log(<<[Event("download", object, out.err, out.file.data)
                         EXCEPT !.readErr = out.readErr]>>)
             /\ Report((IF out.readErr THEN {"ReadAll"} ELSE {})
                         \cup (IF out.err = "nil" THEN {} ELSE {"download"}))
             /\ IF out.err = "nil"
                THEN /\ files' = Append(files, path)
                     /\ commitDate' = object.LastModified
                     /\ pc' = "stage"
                ELSE /\ pc' = AfterApplyError
                     /\ UNCHANGED <<files, commitDate>>
    /\ UNCHANGED <<bucket, run, repoVars, listVars, replayVars, objIdx>>

\* A loop body that forgets container.Tree.Add and goes on.
StageSkipped ==
    /\ pc = "stage"
    /\ objIdx' = objIdx + 1
    /\ pc' = IF objIdx < Len(objectModifications) THEN "download" ELSE "commit"
    /\ UNCHANGED <<bucket, run, fs, repoVars, listVars, replayVars, files,
                   commitDate, reported, faults, trace>>

\* Lines 216-221: container.Tree.Add(object.toBasenamePath()).
Stage ==
    /\ pc = "stage"
    /\ LET object == objectModifications[objIdx]
           path == <<OutputDir, BucketName, toBasenamePath(object)>>
       IN  \E failed \in BOOLEAN :
             IF failed
             THEN /\ pc' = AfterApplyError
                  /\ Report({"stage"})
                  /\ Log(<<Event("stage", object, "err", <<>>)>>)
                  /\ UNCHANGED <<index, objIdx>>
             ELSE /\ index' = [index EXCEPT ![toBasenamePath(object)] = fs[path]]
                  /\ objIdx' = objIdx + 1
                  /\ pc' = IF objIdx < Len(objectModifications) THEN "download"
                           ELSE "commit"
                  /\ Log(<<Event("stage", object, "nil", fs[path].data)>>)
                  /\ UNCHANGED reported
    /\ UNCHANGED <<bucket, run, fs, repoExists, commits, listVars, replayVars,
                   files, commitDate, faults>>

\* The commit object Tree.Commit builds: the staged tree on top of HEAD.
NewCommit ==
    [when |-> commitDate, members |-> objectModifications, tree |-> index,
     parent |-> Len(commits), run |-> run]

\* Lines 223-235: container.Tree.Commit with the author date commitDate.
Commit ==
    /\ pc = "commit"
    /\ \E failed \in BOOLEAN :
         IF failed
         THEN /\ pc' = AfterApplyError
              /\ Report({"commit"})
              /\ Log(<<Event("commit", NoObject, "err", <<>>)>>)
              /\ UNCHANGED commits
         ELSE /\ commits' = Append(commits, NewCommit)
              /\ pc' = "persist"
              /\ Log(<<Event("commit", NoObject, "nil", <<>>)>>)
              /\ UNCHANGED reported
    /\ UNCHANGED <<bucket, run, fs, repoExists, index, listVars, replayVars,
                   applyVars, faults>>

\* A read-back whose error is dropped.
CommitObjectUnchecked ==
    /\ pc = "persist"
    /\ \E failed \in BOOLEAN :
         Log(<<Event("CommitObject", NoObject,
                     IF failed THEN "err" ELSE "nil", <<>>)>>)
    /\ pc' = "resume"
    /\ UNCHANGED <<bucket, run, fs, repoVars, listVars, replayVars, applyVars,
                   reported, faults>>

\* Lines 236-244: container.Repository.CommitObject(commit) reads it back.
CommitObject ==
    /\ pc = "persist"
    /\ \E failed \in BOOLEAN :
         IF failed
         THEN /\ pc' = AfterApplyError
              /\ Report({"CommitObject"})
              /\ Log(<<Event("CommitObject", NoObject, "err", <<>>)>>)
         ELSE /\ pc' = "resume"
              /\ Log(<<Event("CommitObject", NoObject, "nil", <<>>)>>)
              /\ UNCHANGED reported
    /\ UNCHANGED <<bucket, run, fs, repoVars, listVars, replayVars, applyVars,
                   faults>>

(* --------------------------- specification ---------------------------- *)

\* The tool is started again on the same bucket and output directory.
Rerun ==
    /\ pc = "done"
    /\ run < MaxRuns
    /\ run' = run + 1
    /\ pc' = "start"
    /\ rawObjects' = <<>>
    /\ listErr' = FALSE
    /\ sortedVersions' = <<>>
    /\ idx' = 1
    /\ currentDate' = ZeroTime
    /\ objectModifications' = <<>>
    /\ objIdx' = 1
    /\ files' = <<>>
    /\ commitDate' = ZeroTime
    /\ reported' = {}
    /\ faults' = 0
    /\ trace' = <<>>
    /\ UNCHANGED <<bucket, fs, repoVars>>

Next ==
    \/ Bootstrap
    \/ queryS3Bucket
    \/ queryS3Versions
    \/ ReplayVersion
    \/ ResumeReplay
    \/ Download
    \/ Stage
    \/ Commit
    \/ CommitObject

Spec == Init /\ [][Next]_vars

InitRerun == InitWith(MaxRerunVersions)

NextRerun == Next \/ Rerun

SpecRerun == InitRerun /\ [][NextRerun]_vars

(* ------------------------ reading the history ------------------------- *)

OfThisRun(c) == c.run = run

\* The commits this run has created, oldest first.
RunCommits == SelectSeq(commits, OfThisRun)

IsApplyCall(e) == e.op = "applyGitChanges"

\* The changesets this run has handed to applyGitChanges, in call order.
ApplyCalls == SelectSeq(trace, IsApplyCall)

\* Number of calls of applyGitChanges among the first n events.
ApplyCallsUpTo(n) == Len(SelectSeq(SubSeq(trace, 1, n), IsApplyCall))

Timestamps(versions) == { versions[i].LastModified : i \in DOMAIN versions }

Listed == pc \notin {"start", "list", "versions"}

\* The objects whose ListObjectVersions call failed in this run; the call
\* for object i is event 1 + i, after the one ListObjectsV2 call.
ListingFailed ==
    { i \in DOMAIN rawObjects : trace[1 + i].err = "err" }

\* What a stable sort by lastModified makes of s: insertion after the last
\* element that is not later.
RECURSIVE StableSort(_)
StableSort(s) ==
    IF s = <<>> THEN <<>>
    ELSE LET front == StableSort(SubSeq(s, 1, Len(s) - 1))
             x == Last(s)
             k == Cardinality({ i \in DOMAIN front :
                                  front[i].LastModified <= x.LastModified })
         IN  SubSeq(front, 1, k) \o <<x>> \o SubSeq(front, k + 1, Len(front))

(* ------------------------------ claims -------------------------------- *)

\* C1 (as claimed): a run in which no step fails ends with exactly one commit
\* per distinct lastModified of the sorted sequence, the last one included.
C1_OneCommitPerTimestamp ==
    (pc = "done" /\ reported = {} /\ run = 1) =>
        /\ Len(commits) = Cardinality(Timestamps(sortedVersions))
        /\ \A k \in DOMAIN commits : commits[k].parent = k - 1

C3_AuthorDateIsSharedTimestamp ==
    run = 1 =>
      \A k \in DOMAIN commits :
        /\ commits[k].members = ApplyCalls[k].data
        /\ \A m \in DOMAIN commits[k].members :
             commits[k].members[m].LastModified = commits[k].when
        /\ k > 1 => commits[k - 1].when <= commits[k].when

\* C4 (as claimed): two records with different lastModified are never in the
\* same changeset, and a record with the lastModified of the record before
\* it in sort order joins that record's changeset.
C4_ChangesetSharesTimestamp ==
    /\ \A i, j \in DOMAIN objectModifications :
         objectModifications[i].LastModified = objectModifications[j].LastModified
    /\ (pc = "replay" /\ idx > 1 /\ idx <= Len(sortedVersions) + 1
          /\ Len(objectModifications) >= 2) =>
         \* the record scanned last sits behind its predecessor when equal
         (sortedVersions[idx - 1].LastModified = sortedVersions[idx - 2].LastModified
            => /\ Last(objectModifications) = sortedVersions[idx - 1]
               /\ objectModifications[Len(objectModifications) - 1]
                    = sortedVersions[idx - 2])

\* C5 (as claimed): records with equal lastModified keep the order in which
\* the listing enumerated them, in the sorted sequence and in the changeset.
C5_SortIsStable ==
    Listed =>
      /\ sortedVersions = StableSort(CollectVersions(bucket, rawObjects,
                                                     ListingFailed, 1))
      /\ \A i \in DOMAIN objectModifications :
           objectModifications[i]
             = sortedVersions[idx - 1 - Len(objectModifications) + i]

\* C6: after a failed object listing the failure is reported and the run
\* does nothing more: the object set is empty, no version listing, no
\* download, no staging and no commit is performed.
C6_FailedListingDoesNothing ==
    listErr =>
      /\ "ListObjectsV2" \in reported
      /\ rawObjects = <<>>
      /\ sortedVersions = <<>>
      /\ RunCommits = <<>>
      /\ \A n \in DOMAIN trace : trace[n].op = "ListObjectsV2"
      /\ pc \in {"versions", "replay", "done"}

\* C6's case: the listing of a bucket that holds objects has failed and the
\* run has come to its end.
C6_Witness ==
    /\ listErr
    /\ bucket # <<>>
    /\ pc = "done"

\* C7 (as claimed): what a commit holds for a member's path is exactly the
\* stored content of a version of that key replayed in the changeset, never
\* less: a failure to obtain the content never ends in a commit.
C7_CommittedContentIsExact ==
    \A k \in DOMAIN commits :
      \A m \in DOMAIN commits[k].members :
        LET key == commits[k].members[m].Key
        IN  \E m2 \in DOMAIN commits[k].members :
              /\ commits[k].members[m2].Key = key
              /\ commits[k].tree[key]
                   = File(Body(key, commits[k].members[m2].VersionId))

\* C8: a failed version listing is reported and skipped: every version the
\* backend lists for an object whose listing succeeded is in the sequence
\* handed to the replay, and that sequence is sorted by lastModified.
C8_FailedListingIsIsolated ==
    Listed =>
      /\ ListingFailed # {} => "ListObjectVersions" \in reported
      /\ \A i \in DOMAIN rawObjects \ ListingFailed :
           LET listed == ListObjectVersions(bucket, rawObjects[i], OutputDir)
           IN  \A v \in DOMAIN listed :
                 \E w \in DOMAIN sortedVersions : sortedVersions[w] = listed[v]
      /\ \A a, b \in DOMAIN sortedVersions :
           a < b => sortedVersions[a].LastModified <= sortedVersions[b].LastModified

\* C8's case: of two objects the listing of the first failed, that of the
\* second succeeded and returned versions.
C8_Witness ==
    /\ Listed
    /\ Len(rawObjects) = 2
    /\ ListingFailed = {1}
    /\ sortedVersions # <<>>

\* Two downloads of the same record, one right after the other, both with
\* every step of the fetch succeeding.
DownloadedTwice(n, m) ==
    /\ n < m
    /\ trace[n].op = "download" /\ trace[m].op = "download"
    /\ trace[n].obj = trace[m].obj
    /\ \A x \in (n + 1)..(m - 1) : trace[x].op # "download"
    /\ trace[n].err = "nil" /\ ~trace[n].readErr
    /\ trace[m].err = "nil" /\ ~trace[m].readErr

\* C9: materializing a record again leaves the file content of the first
\* time, and a file that exists already does not keep downloadFile from
\* succeeding with the stored content.
C9_MaterializationIdempotent ==
    /\ \A n, m \in DOMAIN trace :
         DownloadedTwice(n, m) => trace[m].data = trace[n].data
    /\ (pc = "download" /\ fs[toLocalPath(objectModifications[objIdx])].exists) =>
         LET object == objectModifications[objIdx]
         IN  \E out \in downloadFile(object, fs[toLocalPath(object)]) :
               /\ out.err = "nil"
               /\ ~out.readErr
               /\ out.file = File(Body(object.Key, object.VersionId))

\* C9's case: a record has been downloaded twice in a row.
C9_Witness ==
    \E n, m \in DOMAIN trace : DownloadedTwice(n, m)

\* C10: no step of any run removes, changes or reorders a commit that is in
\* the repository: the history only grows at its end, also when the tool is
\* started again on an output directory that holds a repository.
C10_HistoryIsAppendOnly ==
    [][/\ Len(commits') >= Len(commits)
       /\ SubSeq(commits', 1, Len(commits)) = commits]_vars

\* C10's case: the second run has added a commit after one of the first.
C10_Witness ==
    /\ run = 2
    /\ Len(commits) >= 2
    /\ commits[1].run = 1
    /\ Last(commits).run = 2

\* C11: when the object listing succeeds and is empty, every later step of
\* the run lists no versions, downloads nothing, commits nothing and reports
\* no error, and the replay, once entered, ends the run in its next step.
C11_EmptyBucketDoesNothing ==
    [][(bucket = <<>> /\ ~listErr' /\ trace' # <<>>) =>
         /\ pc' \in {"versions", "replay", "done"}
         /\ pc = "replay" => pc' = "done"
         /\ rawObjects' = <<>>
         /\ sortedVersions' = <<>>
         /\ reported' = {}
         /\ commits' = commits
         /\ \A n \in DOMAIN trace' : trace'[n].op = "ListObjectsV2"]_vars

\* C11's case: the run on an empty bucket, its listing answered, has ended.
C11_Witness ==
    /\ bucket = <<>>
    /\ ~listErr
    /\ Len(trace) = 1
    /\ pc = "done"

\* C12 (as claimed): no stored (key, versionId) pair is twice in the merged
\* sequence, so none is downloaded twice in a run, also when one key is a
\* prefix of another.
C12_VersionListedOnce ==
    /\ \A i, j \in DOMAIN sortedVersions :
         (/\ sortedVersions[i].Key = sortedVersions[j].Key
          /\ sortedVersions[i].VersionId = sortedVersions[j].VersionId) => i = j
    /\ \A n, m \in DOMAIN trace :
         (/\ trace[n].op = "download" /\ trace[m].op = "download"
          /\ trace[n].obj = trace[m].obj) => n = m

\* The collected versions of key that are not later than t.
VersionsUpTo(key, t) ==
    { i \in DOMAIN sortedVersions :
        sortedVersions[i].Key = key /\ sortedVersions[i].LastModified <= t }

\* C13 (as claimed): when the commit of a changeset with timestamp T is
\* created, every file written so far holds the content of a version of its
\* key with the greatest lastModified not exceeding T among the collected
\* versions.
C13_TreeHoldsLatestVersion ==
    run = 1 =>
      \A k \in DOMAIN commits :
        \A key \in Keys :
          commits[k].tree[key].exists =>
            \E i \in VersionsUpTo(key, commits[k].when) :
              /\ \A j \in VersionsUpTo(key, commits[k].when) :
                   sortedVersions[j].LastModified <= sortedVersions[i].LastModified
              /\ commits[k].tree[key]
                   = File(Body(key, sortedVersions[i].VersionId))

\* The place in the trace of the call of applyGitChanges that event n is
\* part of: the last such call before n.
ApplyCallBefore(n) ==
    CHOOSE p \in 1..n :
      /\ IsApplyCall(trace[p])
      /\ \A q \in (p + 1)..n : ~IsApplyCall(trace[q])

Succeeded(op, n) ==
    Cardinality({ q \in 1..n : trace[q].op = op /\ trace[q].err = "nil" })

\* C15: a member of changeset N+1 is downloaded or staged only after the
\* commit of changeset N was created and read back without error: the call
\* of applyGitChanges it is part of follows directly on that read-back.
C15_ReplayIsSequential ==
    \A n \in DOMAIN trace :
      trace[n].op \in {"download", "stage"} =>
        LET K == ApplyCallsUpTo(n)
            p == ApplyCallBefore(n)
        IN  /\ K >= 1
            /\ Succeeded("commit", n) = K - 1
            /\ Succeeded("CommitObject", n) = K - 1
            /\ Len(RunCommits) >= K - 1
            /\ K >= 2 =>
                 /\ trace[p - 1].op = "CommitObject" /\ trace[p - 1].err = "nil"
                 /\ trace[p - 2].op = "commit" /\ trace[p - 2].err = "nil"

\* C15's case: a member of the second changeset is being downloaded.
C15_Witness ==
    /\ trace # <<>>
    /\ Last(trace).op = "download"
    /\ ApplyCallsUpTo(Len(trace)) = 2

\* C16: applyGitChanges is never called with an empty changeset: every commit
\* has members, holds a file for each of them, and carries the lastModified
\* of its last member, which is not the zero time.
C16_ChangesetNeverEmpty ==
    /\ \A n \in DOMAIN ApplyCalls : ApplyCalls[n].data # <<>>
    /\ pc \in {"download", "stage", "commit", "persist"} =>
         objectModifications # <<>>
    /\ pc \in {"commit", "persist"} => files # <<>>
    /\ \A k \in DOMAIN commits :
         /\ commits[k].members # <<>>
         /\ commits[k].when = Last(commits[k].members).LastModified
         /\ commits[k].when # ZeroTime
         /\ \A m \in DOMAIN commits[k].members :
              commits[k].tree[commits[k].members[m].Key].exists

\* C16's case: a commit exists for a changeset that starts with a record of
\* the zero time.
C16_Witness ==
    /\ commits # <<>>
    /\ commits[1].members[1].LastModified = ZeroTime

=============================================================================
